---- MODULE Spec2Model ----
(***************************************************************************)
(* State-machine model of the registry scrapers of ema_scrapper:           *)
(*   index1.py            run_scraper_for_substance and the __main__ block *)
(*   src/aifa_scrapper_v2 iterate_results_and_scrape and main              *)
(*   src/main.py          main over search_aifa_and_download               *)
(*   src/dummy_rpl_html   scrape   (RPL pagination)                        *)
(*   src/rpl_poland       run_scrape (RPL pagination)                      *)
(*   src/aifa_debug.run   debug_run                                        *)
(*   the label-proximity extractors of the two RPL scripts                 *)
(*   the PDF field extractors and src/aifa_scraper download_pdf_content    *)
(* Every program is sequential; prog selects which script is running and   *)
(* pc is the position of its single thread of control.  The browser, the   *)
(* site and the PDF library are the environment: every call that can fail  *)
(* or answer differently is a nondeterministic choice at the step that     *)
(* makes the call.                                                         *)
(***************************************************************************)
EXTENDS Integers, Sequences, FiniteSets, TLC

(* ------------------------------ bounds -------------------------------- *)
\* largest number of lines of a leaflet text handed to a PDF field extractor
MaxPdfLines == 3
\* largest number of elements inside a card handed to a label extractor
MaxElements == 3
\* length of the configured SUBSTANCES list
NumSubstances == 2
\* largest number of result cards an enumeration returns
MaxCards == 2
\* number of listing pages of the paged registry
MaxSitePages == 2
\* largest max_pages argument
MaxPagesArg == 2
\* page_index at which a pagination that never stops is cut off
PageCap == 4

(* ------------------------- text as token lists ------------------------ *)
\* A text is a sequence of tokens.  "A" is the owner label of the detail
\* page ("Azienda titolare"), "T" a leaflet label containing "Titolare"
\* ("Titolare AIC"), "P" the label "Produttore"; ":" " " and "NL" are the
\* colon, a blank and a line break; the other tokens are value characters.
WS == {" ", "NL"}

Range(s) == {s[i] : i \in DOMAIN s}

Last(s) == s[Len(s)]

RECURSIVE LStrip(_)
LStrip(s) == IF s # <<>> /\ Head(s) \in WS THEN LStrip(Tail(s)) ELSE s

RECURSIVE RStrip(_)
RStrip(s) ==
    IF s # <<>> /\ s[Len(s)] \in WS THEN RStrip(SubSeq(s, 1, Len(s) - 1)) ELSE s

\* str.strip()
Strip(s) == RStrip(LStrip(s))

\* position of the first token t in s, 0 when absent
IndexOf(s, t) ==
    IF t \in Range(s) THEN CHOOSE i \in DOMAIN s : s[i] = t /\ \A j \in 1..(i - 1) : s[j] # t
    ELSE 0

\* the sentinels and messages the scripts write into a field
NotFound == <<"Not Found">>
NotFoundInPDF == <<"Not Found in PDF">>
ErrorMsg == <<"Error: ", "e">>
NoName == <<"(no name)">>

(* --------------------- index1.py: the PDF helper ---------------------- *)
\* the text up to the first line break
FirstLine(s) == IF IndexOf(s, "NL") = 0 THEN s ELSE SubSeq(s, 1, IndexOf(s, "NL") - 1)

\* One field of extract_details_from_pdf: the pattern
\*   (label):?\s*([\s\S]*?)(?:\n\n|\n<other label>|...|$)   with re.MULTILINE
\* is searched from the left; the lazy group ends at the first end of line,
\* and the first non-blank line of the group that does not repeat the label
\* word is the value.
PdfField(text, label) ==
    LET p     == IndexOf(text, label)
        rest  == SubSeq(text, p + 1, Len(text))
        nocol == IF rest # <<>> /\ Head(rest) = ":" THEN Tail(rest) ELSE rest
        group == FirstLine(LStrip(nocol))
    IN  IF p = 0 THEN NotFound
        ELSE IF Strip(group) # <<>> /\ label \notin Range(group) THEN Strip(group)
        ELSE NotFound

\* extract_details_from_pdf: <<ma_holder, manufacturer>>; a file that
\* pdfplumber cannot open or read takes the except branch
extract_details_from_pdf(pdf) ==
    IF pdf.openable
    THEN <<PdfField(pdf.text, "T"), PdfField(pdf.text, "P")>>
    ELSE <<ErrorMsg, ErrorMsg>>

\* ma_holder_html of an owner paragraph with text txt (index1.py line 193)
OwnerValue(txt) ==
    IF ":" \in Range(txt)
    THEN Strip(SubSeq(txt, IndexOf(txt, ":") + 1, Len(txt)))
    ELSE txt

(* -------------------------- environment sets -------------------------- *)
\* leaflets the site serves: both fields, MA holder only, unreadable file
PdfBoth == [openable |-> TRUE, text |-> <<"T", ":", " ", "b", "NL", "P", ":", " ", "c">>]
PdfMaOnly == [openable |-> TRUE, text |-> <<"T", ":", " ", "b">>]
PdfCorrupt == [openable |-> FALSE, text |-> <<>>]
NoPdf == [openable |-> FALSE, text |-> <<"none">>]

\* the heading text of a detail page
H1Text == <<"n">>

\* the detail pages a card can lead to: whether a heading is visible,
\* whether an owner paragraph is visible and its text, the file behind the
\* "Foglio Illustrativo" link, and the text of page.content(), in which
\* "<" stands for the start of a tag
DetailPages ==
    << [h1 |-> TRUE,  has_owner |-> TRUE,  owner |-> <<"A", ":", " ", "a">>,
        leaflet |-> PdfBoth,    html |-> <<"A", ":", " ", "a", "<">>],
       [h1 |-> TRUE,  has_owner |-> TRUE,  owner |-> <<"A", ":", " ">>,
        leaflet |-> PdfMaOnly,  html |-> <<"A", ":", " ", "<", "P", ":", " ", "m", "<">>],
       [h1 |-> FALSE, has_owner |-> FALSE, owner |-> <<>>,
        leaflet |-> PdfCorrupt, html |-> <<"<">>] >>

\* the site: card i of the listing of substance s leads to PageOf(k, s, i),
\* k being the arrangement of the pages chosen when the site is set up
PageOf(k, s, i) == DetailPages[((k + s + i) % Len(DetailPages)) + 1]

NoPage == [h1 |-> FALSE, has_owner |-> FALSE, owner |-> <<>>,
           leaflet |-> NoPdf, html |-> <<>>]

\* the file name f"{substance}_{idx+1}.pdf"
SafeFilename(s, i) == <<"pdf", ToString(s), ToString(i + 1)>>

(* ------------------------------- state -------------------------------- *)
VARIABLES
    prog,         \* the script that is running
    call,         \* one call of a label-proximity extractor: arguments and result
    parse,        \* one call of a PDF field extractor: the file and the result
    site,         \* the arrangement of the detail pages on the site
    pc,           \* position of its thread of control
    sidx,         \* position in SUBSTANCES of the for loop over substances
    attempted,    \* history: substances whose run was started, in order
    aborted,      \* history: substances whose run ended in the outer except handler
    rows,         \* all_results / all_rows / results: the output set
    sink,         \* the persistent table or file
    browser,      \* whether a browser is open
    exit,         \* history: how the current substance run ended
    url,          \* page.url
    total_cards,  \* total_cards counted before the loop
    idx,          \* the loop index
    ncur,         \* len(current_cards) the loop guard saw when it stopped the loop
    visited,      \* history: indices whose card was selected in this run
    shrunk,       \* history: some re-enumeration returned fewer than total_cards
    item,         \* locals of the item being processed
    scraped,      \* aifa_scrapper_v2: the list iterate_results_and_scrape returns
    rpl           \* RPL scripts: the pagination state and the paged listing

runVars == <<exit, url, total_cards, idx, ncur, visited, shrunk, item, scraped>>
vars == <<prog, call, parse, site, pc, sidx, attempted, aborted, rows, sink, browser, runVars, rpl>>

SUBSTANCES == [i \in 1..NumSubstances |-> i]

\* locals at the start of an iteration (index1.py lines 189, 198-200)
NoItem ==
    [ product_name |-> <<>>, ma_holder_html |-> NotFound,
      pdf_filename |-> NotFound, ma_holder_pdf |-> NotFoundInPDF,
      manufacturer_pdf |-> NotFoundInPDF,
      page |-> NoPage, ready |-> FALSE, dl |-> "none", manu_src |-> "none",
      appended |-> FALSE, fresh |-> FALSE, stale_click |-> FALSE ]

\* the locals right after the cards were enumerated on the page now shown:
\* fresh says that the card references held are younger than the latest
\* navigation, stale_click that an older reference was clicked
FreshItem == [NoItem EXCEPT !.fresh = TRUE]

\* the table left by an earlier run
PriorTable == << [Search_Substance |-> 0, idx |-> 0, Product_Name |-> H1Text,
                  MA_Holder |-> NotFound, Manufacturer |-> NotFound,
                  PDF_File |-> NotFound] >>

\* no PDF field extraction under way
\* no download under way: the outcome of the browser-context request, whether
\* the plain request was made and its outcome, what the call returned and
\* which attempt wrote the file
NoDownload == [first |-> "none", fallback |-> FALSE, second |-> "none",
               returned |-> "none", written_by |-> 0]

NoParse == [fn |-> "none", pdf |-> PdfCorrupt, dl |-> NoDownload, done |-> FALSE,
            raised |-> FALSE, mah |-> <<>>, manu |-> <<>>]

\* no extractor call under way
NoCall == [container |-> <<>>, label_variants |-> <<>>, done |-> FALSE,
           raised |-> FALSE, handle_eq |-> FALSE, values |-> <<>>,
           candidates |-> <<>>, result |-> <<>>]

Programs == {"index1", "v2", "main_py", "scrape", "run_scrape", "aifa_debug"}

RplPrograms == {"scrape", "run_scrape"}

\* the next control of a listing page: absent, or a button with its class,
\* aria-disabled and disabled attributes
NoButton == [present |-> FALSE, cls |-> FALSE, aria |-> FALSE, attr |-> FALSE]
EnabledButton == [present |-> TRUE, cls |-> FALSE, aria |-> FALSE, attr |-> FALSE]
LastControls ==
    { NoButton,
      [present |-> TRUE, cls |-> TRUE,  aria |-> FALSE, attr |-> FALSE],
      [present |-> TRUE, cls |-> FALSE, aria |-> TRUE,  attr |-> FALSE],
      [present |-> TRUE, cls |-> FALSE, aria |-> FALSE, attr |-> TRUE] }

\* the max_pages argument: None, or an integer
NoMaxPages == [given |-> FALSE, n |-> 0]
MaxPagesArgs == {NoMaxPages} \cup {[given |-> TRUE, n |-> k] : k \in 0..MaxPagesArg}

\* page_index, the history of processed pages and of the numbers of
\* non-empty cards found on them; the site shows listing
\* page site_page of site_last, whose last page carries control last_ctl;
\* next_btn is the control found after the page, fail_at the get_attribute
\* call that raised (0: none), read_failed whether such a failure happened
\* on a control that reports disabled
RplInit(mp, last, ctl) ==
    [ page_index |-> 1, pages |-> <<>>, counts |-> <<>>, max_pages |-> mp,
      site_page |-> 1, site_last |-> last, last_ctl |-> ctl,
      next_btn |-> NoButton, fail_at |-> 0, read_failed |-> FALSE ]

Init ==
    /\ prog \in Programs
    /\ call = NoCall
    /\ parse = NoParse
    /\ site \in IF prog \in RplPrograms THEN {0} ELSE 0..(Len(DetailPages) - 1)
    /\ rpl \in IF prog \in RplPrograms
               THEN {RplInit(mp, last, ctl) : mp \in MaxPagesArgs, last \in 1..MaxSitePages,
                                              ctl \in LastControls}
               ELSE {RplInit(NoMaxPages, 1, NoButton)}
    /\ pc = IF prog = "index1" THEN "main" ELSE "start"
    /\ sidx = 1
    /\ attempted = <<>>
    /\ aborted = {}
    /\ rows = <<>>
    /\ sink = [table |-> PriorTable, csv |-> <<>>, writes |-> 0]
    /\ browser = FALSE
    /\ exit = "none"
    /\ url = "blank"
    /\ total_cards = 0
    /\ idx = 0
    /\ ncur = 0
    /\ visited = <<>>
    /\ shrunk = FALSE
    /\ item = NoItem
    /\ scraped = <<>>

(* ------------- index1.py: __main__ and run_scraper_for_substance ------ *)
\* __main__, lines 246-247: the for loop over SUBSTANCES
I1_Main ==
    /\ prog = "index1" /\ pc = "main"
    /\ IF sidx <= NumSubstances
       THEN /\ attempted' = Append(attempted, SUBSTANCES[sidx])
            /\ pc' = "launch"
       ELSE /\ pc' = "save"
            /\ UNCHANGED attempted
    /\ UNCHANGED <<prog, call, parse, site, aborted, rpl, sidx, rows, sink, browser, runVars>>

\* lines 117-123: launch the browser, open the site, accept the modal
I1_Launch ==
    /\ prog = "index1" /\ pc = "launch"
    /\ \/ /\ browser' = TRUE /\ url' = "home" /\ pc' = "search"      \* all calls succeed
          /\ exit' = exit
       \/ /\ browser' = FALSE /\ url' = url /\ pc' = "except"        \* launch raises
          /\ exit' = "site_error"
       \/ /\ browser' = TRUE /\ url' = url /\ pc' = "except"         \* page.goto raises
          /\ exit' = "site_error"
    /\ UNCHANGED <<prog, call, parse, site, aborted, rpl, sidx, attempted, rows, sink, total_cards, idx, ncur,
                   visited, shrunk, item, scraped>>

\* a variant of the search step that goes on to the results after a failure
I1_Search_ContinuesOnFailure ==
    /\ prog = "index1" /\ pc = "search"
    /\ \/ /\ pc' = "wait_results" /\ exit' = exit
       \/ /\ pc' = "wait_results" /\ exit' = "search_failed"
    /\ UNCHANGED <<prog, call, parse, site, aborted, rpl, sidx, attempted, rows, sink, browser, url, total_cards,
                   idx, ncur, visited, shrunk, item, scraped>>

\* lines 126-133: fill the search input and press Enter
I1_Search ==
    /\ prog = "index1" /\ pc = "search"
    /\ \/ /\ pc' = "wait_results" /\ exit' = exit
       \/ /\ pc' = "finally" /\ exit' = "search_failed"              \* except: return
    /\ UNCHANGED <<prog, call, parse, site, aborted, rpl, sidx, attempted, rows, sink, browser, url, total_cards,
                   idx, ncur, visited, shrunk, item, scraped>>

\* lines 135-150: wait for results, record the listing URL, count the cards
I1_WaitResults ==
    /\ prog = "index1" /\ pc = "wait_results"
    /\ \/ /\ pc' = "finally" /\ exit' = "no_results"                 \* wait_for_results is False
          /\ UNCHANGED <<url, total_cards>>
       \/ \E n \in 0..MaxCards :
             /\ url' = "listing"
             /\ total_cards' = n
             /\ IF n = 0 THEN pc' = "finally" /\ exit' = "zero_cards"
                         ELSE pc' = "loop_top" /\ exit' = exit
    /\ UNCHANGED <<prog, call, parse, site, aborted, rpl, sidx, attempted, rows, sink, browser, idx, ncur,
                   visited, shrunk, item, scraped>>

\* lines 153-171: loop head, Step A (resync) and Step B (re-enumerate)
I1_LoopTop ==
    /\ prog = "index1" /\ pc = "loop_top"
    /\ IF idx >= total_cards
       THEN /\ pc' = "finally" /\ exit' = "loop_done"               \* range exhausted
            /\ UNCHANGED <<url, ncur, visited, shrunk, item>>
       ELSE \/ /\ url # "listing"                                    \* page.goto raises
               /\ pc' = "except" /\ exit' = "site_error"
               /\ UNCHANGED <<url, ncur, visited, shrunk, item>>
            \/ \E m \in 0..MaxCards :
                  /\ url' = "listing"
                  /\ ncur' = IF idx >= m THEN m ELSE ncur
                  /\ shrunk' = (shrunk \/ m < total_cards)
                  /\ item' = FreshItem
                  /\ IF idx >= m
                     THEN pc' = "finally" /\ exit' = "drift" /\ visited' = visited   \* break
                     ELSE pc' = "click" /\ exit' = exit /\ visited' = Append(visited, idx)
    /\ UNCHANGED <<prog, call, parse, site, aborted, rpl, sidx, attempted, rows, sink, browser, total_cards, idx,
                   scraped>>

\* lines 173-179: Step C, click the card
I1_ClickCard ==
    /\ prog = "index1" /\ pc = "click"
    /\ \/ /\ item' = [item EXCEPT !.page = PageOf(site, SUBSTANCES[sidx], idx),
                                  !.stale_click = ~item.fresh, !.fresh = FALSE]
          /\ url' = "detail" /\ pc' = "wait_detail" /\ idx' = idx    \* the detail page opens
       \/ /\ url' = url /\ pc' = "loop_top" /\ idx' = idx + 1        \* except: continue
          /\ item' = [item EXCEPT !.stale_click = ~item.fresh]
    /\ UNCHANGED <<prog, call, parse, site, aborted, rpl, sidx, attempted, rows, sink, browser, exit, total_cards,
                   ncur, visited, shrunk, scraped>>

\* lines 181-184: Step D, wait_for_detail_ready
I1_WaitDetail ==
    /\ prog = "index1" /\ pc = "wait_detail"
    /\ \/ /\ pc' = "extract" /\ idx' = idx
          /\ item' = [item EXCEPT !.ready = TRUE]
       \/ /\ pc' = "loop_top" /\ idx' = idx + 1                      \* not ready: continue
          /\ item' = item
    /\ UNCHANGED <<prog, call, parse, site, aborted, rpl, sidx, attempted, rows, sink, browser, exit, url,
                   total_cards, ncur, visited, shrunk, scraped>>

\* lines 186-195: read the heading and the owner paragraph; none of the
\* locator calls is inside a try of its own
I1_ExtractHtml ==
    /\ prog = "index1" /\ pc = "extract"
    /\ \/ /\ pc' = "except" /\ item' = item /\ exit' = "item_error"  \* a locator call raises
       \/ /\ item' = [item EXCEPT
                  !.product_name = IF item.page.h1 THEN H1Text ELSE NoName,
                  !.ma_holder_html = IF item.page.has_owner THEN OwnerValue(item.page.owner)
                                                            ELSE NotFound]
          /\ pc' = "pdf" /\ exit' = exit
    /\ UNCHANGED <<prog, call, parse, site, aborted, rpl, sidx, attempted, rows, sink, browser, url, total_cards,
                   idx, ncur, visited, shrunk, scraped>>

\* a variant of the leaflet step in which a failed download ends the run
I1_PdfDownload_AbortsOnFailure ==
    /\ prog = "index1" /\ pc = "pdf"
    /\ \/ /\ pc' = "except" /\ item' = item /\ exit' = "item_error"
       \/ /\ pc' = "append" /\ exit' = exit
          /\ item' = [item EXCEPT !.dl = "nolink"]
       \/ /\ pc' = "except" /\ exit' = "item_error"
          /\ item' = [item EXCEPT !.dl = "failed"]
       \/ /\ pc' = "append" /\ exit' = exit
          /\ item' = [item EXCEPT !.dl = "ok",
                         !.pdf_filename = SafeFilename(SUBSTANCES[sidx], idx),
                         !.ma_holder_pdf = extract_details_from_pdf(item.page.leaflet)[1],
                         !.manufacturer_pdf = extract_details_from_pdf(item.page.leaflet)[2]]
    /\ UNCHANGED <<prog, call, parse, site, aborted, rpl, sidx, attempted, rows, sink, browser, url, total_cards,
                   idx, ncur, visited, shrunk, scraped>>

\* lines 197-218: the leaflet link, the download and the PDF read
I1_PdfDownload ==
    /\ prog = "index1" /\ pc = "pdf"
    /\ \/ /\ pc' = "except" /\ item' = item /\ exit' = "item_error"  \* pdf_btn.is_visible() raises
       \/ /\ pc' = "append" /\ exit' = exit                          \* the link is not visible
          /\ item' = [item EXCEPT !.dl = "nolink"]
       \/ /\ pc' = "append" /\ exit' = exit                          \* download times out or raises
          /\ item' = [item EXCEPT !.dl = "failed"]
       \/ /\ pc' = "append" /\ exit' = exit                          \* the file is saved and read
          /\ item' = [item EXCEPT !.dl = "ok",
                         !.pdf_filename = SafeFilename(SUBSTANCES[sidx], idx),
                         !.ma_holder_pdf = extract_details_from_pdf(item.page.leaflet)[1],
                         !.manufacturer_pdf = extract_details_from_pdf(item.page.leaflet)[2]]
    /\ UNCHANGED <<prog, call, parse, site, aborted, rpl, sidx, attempted, rows, sink, browser, url, total_cards,
                   idx, ncur, visited, shrunk, scraped>>

\* line 221: the merge of the two MA-holder values
FinalMa(html, pdfma) == IF html # NotFound THEN html ELSE pdfma

\* lines 220-229: build the row and append it; the for loop then advances
I1_Append ==
    /\ prog = "index1" /\ pc = "append"
    /\ rows' = Append(rows,
          [ Search_Substance |-> SUBSTANCES[sidx], idx |-> idx,
            Product_Name |-> item.product_name,
            MA_Holder |-> FinalMa(item.ma_holder_html, item.ma_holder_pdf),
            Manufacturer |-> item.manufacturer_pdf,
            PDF_File |-> item.pdf_filename ])
    /\ item' = [item EXCEPT !.appended = TRUE]
    /\ idx' = idx + 1
    /\ pc' = "loop_top"
    /\ UNCHANGED <<prog, call, parse, site, aborted, rpl, sidx, attempted, sink, browser, exit, url, total_cards,
                   ncur, visited, shrunk, scraped>>

\* lines 233-235: the handler of the outer try
I1_Except ==
    /\ prog = "index1" /\ pc = "except"
    /\ pc' = "finally"
    /\ aborted' = aborted \cup {SUBSTANCES[sidx]}
    /\ UNCHANGED <<prog, call, parse, site, rpl, sidx, attempted, rows, sink, browser, runVars>>

\* the locals of a run that has returned
ResetRun ==
    /\ exit' = "none" /\ url' = "blank" /\ total_cards' = 0 /\ idx' = 0
    /\ ncur' = 0 /\ visited' = <<>> /\ shrunk' = FALSE /\ item' = NoItem
    /\ scraped' = <<>>

\* a variant of the finally clause that leaves the browser as it is
I1_Finally_LeavesBrowser ==
    /\ prog = "index1" /\ pc = "finally"
    /\ sidx' = sidx + 1
    /\ pc' = "main"
    /\ ResetRun
    /\ UNCHANGED <<prog, call, parse, site, aborted, rpl, attempted, rows, sink, browser>>

\* lines 236-239: close the browser; the run returns to the loop of __main__
I1_Finally ==
    /\ prog = "index1" /\ pc = "finally"
    /\ browser' = FALSE
    /\ sidx' = sidx + 1
    /\ pc' = "main"
    /\ ResetRun
    /\ UNCHANGED <<prog, call, parse, site, aborted, rpl, attempted, rows, sink>>

\* lines 251-270: save all_results, to the database or to the backup CSV
I1_Save ==
    /\ prog = "index1" /\ pc = "save"
    /\ IF rows # <<>>
       THEN \/ sink' = [sink EXCEPT !.table = rows, !.writes = @ + 1]
            \/ sink' = [sink EXCEPT !.csv = rows, !.writes = @ + 1]  \* DB error
       ELSE sink' = sink
    /\ pc' = "done"
    /\ UNCHANGED <<prog, call, parse, site, aborted, rpl, sidx, attempted, rows, browser, runVars>>

(* -------------------- aifa_scrapper_v2.py: helpers -------------------- *)
\* Python None
None == <<"None">>

\* characters a token stands for: a separator or the stray character "z" is
\* one character, a label has the eight characters of "Titolare" or more,
\* a value word is longer than any {n,} lower bound of the patterns
Weight(tok) ==
    IF tok \in {":", " ", "NL", "<", "z"} THEN 1
    ELSE IF tok \in {"A", "T", "M", "P", "F", "W", "R", "C"} THEN 8
    ELSE 6

RECURSIVE TextLen(_)
TextLen(s) == IF s = <<>> THEN 0 ELSE Weight(Head(s)) + TextLen(Tail(s))

\* the longest prefix of s without a token of stops
RECURSIVE UpTo(_, _)
UpTo(s, stops) ==
    IF s = <<>> \/ Head(s) \in stops THEN <<>> ELSE <<Head(s)>> \o UpTo(Tail(s), stops)

\* length of the longest prefix of s made of tokens of set
RECURSIVE RunLen(_, _)
RunLen(s, set) == IF s # <<>> /\ Head(s) \in set THEN 1 + RunLen(Tail(s), set) ELSE 0

\* " ".join(x.strip().split())
RECURSIVE Collapse(_)
Collapse(s) ==
    IF s = <<>> THEN <<>>
    ELSE IF Head(s) \in WS
         THEN <<" ">> \o Collapse(LStrip(s))
         ELSE <<Head(s)>> \o Collapse(Tail(s))

NormalizeWs(s) == Collapse(Strip(s))

\* group 1 of  label[:\s]*([^stops]{minlen,})  matched right after a label,
\* rest being the text that follows the label: the separator run is greedy
\* and gives characters back until the group is long enough; None when no
\* split works
GroupAfter(rest, stops, minlen) ==
    LET run  == RunLen(rest, {":"} \cup WS)
        cap(k) == UpTo(SubSeq(rest, k + 1, Len(rest)), stops)
        ok   == {k \in 0..run : TextLen(cap(k)) >= minlen}
    IN  IF ok = {} THEN None
        ELSE cap(CHOOSE k \in ok : \A j \in ok : j <= k)

\* re.search(label[:\s]*([^stops]{minlen,}), text): the leftmost label
\* occurrence at which the pattern matches
RECURSIVE ReSearch(_, _, _, _)
ReSearch(text, label, stops, minlen) ==
    LET p == IndexOf(text, label)
        g == GroupAfter(SubSeq(text, p + 1, Len(text)), stops, minlen)
    IN  IF p = 0 THEN None
        ELSE IF g # None THEN g
        ELSE ReSearch(SubSeq(text, p + 1, Len(text)), label, stops, minlen)

\* lines 176-185: the patterns of a field tried in order, first match wins
RECURSIVE FirstPattern(_, _)
FirstPattern(text, labels) ==
    IF labels = <<>> THEN None
    ELSE IF ReSearch(text, Head(labels), {"NL"}, 2) # None
         THEN NormalizeWs(ReSearch(text, Head(labels), {"NL"}, 2))
         ELSE FirstPattern(text, Tail(labels))

\* lines 164-186: extract_from_pdf, <<mah, manu>>; "A" Azienda titolare,
\* "T" Titolare, "M" Marketing Authorisation Holder, "P" Produttore,
\* "F" Manufacturer, "W" Wytworca
v2_extract_from_pdf(pdf) ==
    IF ~pdf.openable \/ TextLen(pdf.text) < 10
    THEN <<None, None>>
    ELSE <<FirstPattern(pdf.text, <<"A", "T", "M">>), FirstPattern(pdf.text, <<"P", "F", "W">>)>>

\* lines 206-217: extract_ma_holder_from_detail on page.content()
extract_ma_holder_from_detail(html) ==
    IF ReSearch(html, "A", {"NL", "<"}, 3) # None
    THEN NormalizeWs(ReSearch(html, "A", {"NL", "<"}, 3))
    ELSE None

\* lines 345-349: the manufacturer looked up in the page HTML
HtmlManufacturer(html) ==
    IF ReSearch(html, "P", {"NL", "<"}, 3) # None
    THEN NormalizeWs(ReSearch(html, "P", {"NL", "<"}, 3))
    ELSE None

(* ------- aifa_scrapper_v2.py: main and iterate_results_and_scrape ----- *)
\* In this script item.ma_holder_html is the local ma_holder,
\* item.manufacturer_pdf the local manufacturer and item.pdf_filename the
\* list pdf_paths; idx is the local index.

\* lines 392-398: launch the browser and open the site once
V2_Start ==
    /\ prog = "v2" /\ pc = "start"
    /\ \/ /\ browser' = TRUE /\ url' = "home" /\ pc' = "main"
       \/ /\ browser' = FALSE /\ url' = url /\ pc' = "crashed"       \* launch or goto raises
    /\ UNCHANGED <<prog, call, parse, site, aborted, rpl, sidx, attempted, rows, sink, exit, total_cards, idx, ncur,
                   visited, shrunk, item, scraped>>

\* lines 400-426: the for loop over SUBSTANCES up to the submitted search;
\* page.goto, inp.click, inp.fill and the Enter key are not inside a try
V2_Main ==
    /\ prog = "v2" /\ pc = "main"
    /\ IF sidx > NumSubstances
       THEN /\ browser' = FALSE /\ pc' = "save"                      \* line 433
            /\ UNCHANGED <<sidx, attempted, url>>
       ELSE /\ attempted' = Append(attempted, SUBSTANCES[sidx])
            /\ \/ /\ pc' = "crashed" /\ browser' = FALSE             \* page.goto raises
                  /\ UNCHANGED <<sidx, url>>
               \/ /\ pc' = "main" /\ sidx' = sidx + 1                \* no input: continue
                  /\ url' = "home" /\ browser' = browser
               \/ /\ pc' = "crashed" /\ browser' = FALSE             \* click, fill or Enter raises
                  /\ url' = "home" /\ sidx' = sidx
               \/ /\ pc' = "wait_results" /\ url' = "home"           \* search submitted
                  /\ UNCHANGED <<sidx, browser>>
    /\ UNCHANGED <<prog, call, parse, site, aborted, rpl, rows, sink, exit, total_cards, idx, ncur, visited, shrunk,
                   item, scraped>>

\* lines 253-260: iterate_results_and_scrape up to the loop
V2_WaitResults ==
    /\ prog = "v2" /\ pc = "wait_results"
    /\ \/ /\ pc' = "return" /\ exit' = "no_results" /\ url' = url
       \/ /\ pc' = "loop_top" /\ exit' = exit /\ url' = "listing"
    /\ UNCHANGED <<prog, call, parse, site, aborted, rpl, sidx, attempted, rows, sink, browser, total_cards, idx, ncur,
                   visited, shrunk, item, scraped>>

\* lines 261-270: re-query the cards on the page the session is on
V2_LoopTop ==
    /\ prog = "v2" /\ pc = "loop_top"
    /\ \E m \in 0..MaxCards :
          /\ ncur' = IF m = 0 \/ idx >= m THEN m ELSE ncur
          /\ item' = FreshItem
          /\ IF m = 0 \/ idx >= m
             THEN pc' = "return" /\ exit' = "loop_done" /\ visited' = visited
             ELSE pc' = "click" /\ exit' = exit /\ visited' = Append(visited, idx)
    /\ UNCHANGED <<prog, call, parse, site, aborted, rpl, sidx, attempted, rows, sink, browser, url, total_cards, idx,
                   shrunk, scraped>>

\* lines 271-287: click the anchor of the card or the card itself
V2_ClickCard ==
    /\ prog = "v2" /\ pc = "click"
    /\ \/ /\ item' = [item EXCEPT !.page = PageOf(site, SUBSTANCES[sidx], idx),
                                  !.stale_click = ~item.fresh, !.fresh = FALSE]
          /\ url' = "detail" /\ pc' = "wait_detail" /\ idx' = idx
       \/ /\ url' = url /\ pc' = "loop_top" /\ idx' = idx + 1        \* index += 1; continue
          /\ item' = [item EXCEPT !.stale_click = ~item.fresh]
    /\ UNCHANGED <<prog, call, parse, site, aborted, rpl, sidx, attempted, rows, sink, browser, exit, total_cards, ncur,
                   visited, shrunk, scraped>>

\* lines 289-298: wait for the detail URL, then for a detail marker; when
\* both waits time out the except branch is pass
V2_WaitDetail ==
    /\ prog = "v2" /\ pc = "wait_detail"
    /\ \E r \in BOOLEAN : item' = [item EXCEPT !.ready = r]
    /\ pc' = "extract"
    /\ UNCHANGED <<prog, call, parse, site, aborted, rpl, sidx, attempted, rows, sink, browser, exit, url, total_cards,
                   idx, ncur, visited, shrunk, scraped>>

\* the row of lines 351-358
V2Row(s, i, it, u) ==
    [ substance |-> s, idx |-> i, medicine_name |-> it.product_name,
      product_url |-> u, ma_holder |-> it.ma_holder_html,
      manufacturer |-> it.manufacturer_pdf, pdf_paths |-> it.pdf_filename ]

\* lines 337-349: the manufacturer of the row, from the saved PDF when it
\* names one, else from the HTML of the page the session is on
V2Manufacturer(saved, pdf, html) ==
    IF saved /\ v2_extract_from_pdf(pdf)[2] # None
    THEN v2_extract_from_pdf(pdf)[2]
    ELSE HtmlManufacturer(html)

\* lines 300-366: the try block that builds the row.  link: a leaflet link
\* was found; saved: one of the three download attempts wrote the file;
\* nav: the download went through page.goto(pdf_link)
V2_Extract ==
    /\ prog = "v2" /\ pc = "extract"
    /\ \/ \E link \in BOOLEAN, saved \in BOOLEAN, nav \in BOOLEAN :
             LET d    == item.page
                 sv   == link /\ saved
                 u    == IF link /\ nav THEN "pdf" ELSE url
                 html == IF u = "pdf" THEN <<>> ELSE d.html
                 it   == [item EXCEPT
                            !.product_name = IF d.h1 THEN H1Text
                                             ELSE <<ToString(SUBSTANCES[sidx]), "_no_title">>,
                            !.ma_holder_html = extract_ma_holder_from_detail(d.html),
                            !.pdf_filename = IF sv THEN SafeFilename(SUBSTANCES[sidx], idx)
                                                   ELSE <<>>,
                            !.manufacturer_pdf = V2Manufacturer(sv, d.leaflet, html),
                            !.dl = IF ~link THEN "nolink" ELSE IF saved THEN "ok" ELSE "failed",
                            !.manu_src = IF sv /\ v2_extract_from_pdf(d.leaflet)[2] # None
                                         THEN "pdf"
                                         ELSE IF HtmlManufacturer(html) # None THEN "html"
                                         ELSE "none",
                            !.appended = TRUE]
             IN  /\ (~link => ~saved /\ ~nav)
                 /\ item' = it
                 /\ url' = u
                 /\ scraped' = Append(scraped, V2Row(SUBSTANCES[sidx], idx, it, u))
                 /\ pc' = "go_back"
       \/ /\ pc' = "go_back"                                         \* page.content() raises, debug file written
          /\ UNCHANGED <<item, url, scraped>>
       \/ /\ pc' = "crashed"                                         \* and raises again in the handler
          /\ UNCHANGED <<item, url, scraped>>
    /\ browser' = (pc' # "crashed")
    /\ UNCHANGED <<prog, call, parse, site, aborted, rpl, sidx, attempted, rows, sink, exit, total_cards, idx, ncur,
                   visited, shrunk>>

\* lines 368-385: go back; when that raises, reload the home page and break
V2_GoBack ==
    /\ prog = "v2" /\ pc = "go_back"
    /\ \/ /\ url' = IF url = "pdf" THEN "detail" ELSE "listing"      \* one step back in history
          /\ idx' = idx + 1 /\ pc' = "loop_top" /\ exit' = exit
       \/ /\ url' \in {"home", url}                                  \* go_back raises: break
          /\ idx' = idx /\ pc' = "return" /\ exit' = "back_failed"
    /\ UNCHANGED <<prog, call, parse, site, aborted, rpl, sidx, attempted, rows, sink, browser, total_cards, ncur,
                   visited, shrunk, item, scraped>>

\* lines 387 and 430-431: return scraped; all_rows.extend(rows)
V2_Return ==
    /\ prog = "v2" /\ pc = "return"
    /\ rows' = rows \o scraped
    /\ sidx' = sidx + 1
    /\ pc' = "main"
    /\ exit' = "none" /\ total_cards' = 0 /\ idx' = 0 /\ ncur' = 0 /\ visited' = <<>>
    /\ shrunk' = FALSE /\ item' = NoItem /\ scraped' = <<>>
    /\ UNCHANGED <<prog, call, parse, site, aborted, rpl, attempted, sink, browser, url>>

\* lines 435-442: save the CSV when there are rows
V2_Save ==
    /\ prog = "v2" /\ pc = "save"
    /\ sink' = IF rows # <<>> THEN [sink EXCEPT !.csv = rows, !.writes = @ + 1] ELSE sink
    /\ pc' = "done"
    /\ UNCHANGED <<prog, call, parse, site, aborted, rpl, sidx, attempted, rows, browser, runVars>>

(* --------------------------- src/main.py ------------------------------ *)
\* pdf_utils.extract_from_pdf, lines 8-32: no try around extract_text; the
\* first matching pattern of a field wins and its group is stripped
RECURSIVE PUFirstPattern(_, _)
PUFirstPattern(text, labels) ==
    IF labels = <<>> THEN None
    ELSE IF ReSearch(text, Head(labels), {"NL"}, 2) # None
         THEN Strip(ReSearch(text, Head(labels), {"NL"}, 2))
         ELSE PUFirstPattern(text, Tail(labels))

pdf_utils_extract(pdf) ==
    [ mah |-> PUFirstPattern(pdf.text, <<"M", "T">>),
      manufacturer |-> PUFirstPattern(pdf.text, <<"F", "R", "C", "P">>) ]

\* line 10: get_country_links, and the test of line 12
MP_Start ==
    /\ prog = "main_py" /\ pc = "start"
    /\ pc' \in {"crashed", "save", "main"}       \* request raises / no italy link / link found
    /\ UNCHANGED <<prog, call, parse, site, aborted, rpl, sidx, attempted, rows, sink, browser, runVars>>

\* line 13 and country_aifa.py lines 11-15: next substance, browser launched
MP_Main ==
    /\ prog = "main_py" /\ pc = "main"
    /\ IF sidx > NumSubstances
       THEN /\ pc' = "save" /\ UNCHANGED <<attempted, browser>>
       ELSE /\ attempted' = Append(attempted, SUBSTANCES[sidx])
            /\ \/ pc' = "crashed" /\ browser' = FALSE                \* launch or goto raises
               \/ pc' = "search" /\ browser' = TRUE
    /\ UNCHANGED <<prog, call, parse, site, aborted, rpl, sidx, rows, sink, runVars>>

\* country_aifa.py lines 16-70: search, open the first result, find the
\* first PDF link, close the browser and download the file
MP_Search ==
    /\ prog = "main_py" /\ pc = "search"
    /\ browser' = FALSE
    /\ \/ /\ pc' = "main" /\ sidx' = sidx + 1 /\ item' = item         \* returns None
       \/ /\ pc' = "crashed" /\ sidx' = sidx /\ item' = item          \* a page call or requests.get raises
       \/ /\ pc' = "extract" /\ sidx' = sidx                          \* returns local_fn
          /\ item' = [item EXCEPT !.page = PageOf(site, SUBSTANCES[sidx], 0),
                                  !.pdf_filename = SafeFilename(SUBSTANCES[sidx], 0), !.dl = "ok"]
    /\ UNCHANGED <<prog, call, parse, site, aborted, rpl, attempted, rows, sink, exit, url, total_cards, idx,
                   ncur, visited, shrunk, scraped>>

\* main.py lines 15-23: extract_from_pdf and the appended row
MP_Extract ==
    /\ prog = "main_py" /\ pc = "extract"
    /\ IF item.page.leaflet.openable
       THEN /\ rows' = Append(rows,
                  [ country |-> "Italy", substance |-> SUBSTANCES[sidx],
                    pdf |-> item.pdf_filename,
                    mah |-> pdf_utils_extract(item.page.leaflet).mah,
                    manufacturer |-> pdf_utils_extract(item.page.leaflet).manufacturer ])
            /\ sidx' = sidx + 1 /\ pc' = "main"
       ELSE /\ pc' = "crashed" /\ UNCHANGED <<rows, sidx>>            \* extract_text raises
    /\ item' = NoItem
    /\ UNCHANGED <<prog, call, parse, site, aborted, rpl, attempted, sink, browser, exit, url, total_cards, idx,
                   ncur, visited, shrunk, scraped>>

\* main.py lines 24-26: the CSV is written whatever results holds
MP_Save ==
    /\ prog = "main_py" /\ pc = "save"
    /\ sink' = [sink EXCEPT !.csv = rows, !.writes = @ + 1]
    /\ pc' = "done"
    /\ UNCHANGED <<prog, call, parse, site, aborted, rpl, sidx, attempted, rows, browser, runVars>>

(* ---------- dummy_rpl_html.py scrape, rpl_poland.py run_scrape -------- *)
\* the next control of the listing page the site shows
ControlAt(r) == IF r.site_page < r.site_last THEN EnabledButton ELSE r.last_ctl

\* what the attributes of a control say
ReportsDisabled(b) == b.cls \/ b.aria \/ b.attr

\* rpl_poland.py lines 308-321: is_disabled; f is the get_attribute call
\* that raises, 0 when none does
is_disabled(el, f) ==
    IF ~el.present THEN TRUE
    ELSE IF f = 1 THEN FALSE
    ELSE IF el.cls THEN TRUE
    ELSE IF f = 2 THEN FALSE
    ELSE IF el.aria THEN TRUE
    ELSE IF f = 3 THEN FALSE
    ELSE el.attr

\* dummy_rpl_html.py lines 509-517: the three attributes are read first;
\* when a read raises the test is skipped
ScrapeSeesDisabled(el, f) == f = 0 /\ (el.cls \/ el.aria \/ el.attr)

\* the test  max_pages and page_index > max_pages  of both loops
MaxPagesReached(mp, pi) == mp.given /\ mp.n # 0 /\ pi > mp.n

\* up to the loop: open the site, find the search input, submit the search
\* and wait for a result marker; a missing input raises RuntimeError, a wait
\* that times out is passed over (scrape 328-381, run_scrape 160-194)
RPL_Start ==
    /\ prog \in RplPrograms /\ pc = "start"
    /\ \/ pc' = "crashed" /\ browser' = FALSE /\ exit' = "site_error"     \* launch or goto raises
       \/ pc' = "crashed" /\ browser' = FALSE /\ exit' = "search_failed"  \* RuntimeError, or fill raises
       \/ pc' = "page" /\ browser' = TRUE /\ exit' = exit                 \* a result marker appears
       \/ pc' = "page" /\ browser' = TRUE /\ exit' = "no_results"         \* the wait times out: pass
    /\ UNCHANGED <<prog, call, parse, site, aborted, rpl, sidx, attempted, rows, sink, url, total_cards, idx, ncur,
                   visited, shrunk, item, scraped>>

\* dummy_rpl_html.py lines 310-325, clean_cell.  The label phrase "Kod ATC"
\* is the three tokens "Kod", " ", "ATC"; "|" is a separator character.
LabelPhrase == <<"Kod", " ", "ATC">>

\* s.replace(phrase, ""): every occurrence, left to right
RECURSIVE RemovePhrase(_)
RemovePhrase(s) ==
    IF s = <<>> THEN <<>>
    ELSE IF Len(s) >= Len(LabelPhrase) /\ SubSeq(s, 1, Len(LabelPhrase)) = LabelPhrase
         THEN RemovePhrase(SubSeq(s, Len(LabelPhrase) + 1, Len(s)))
         ELSE <<Head(s)>> \o RemovePhrase(Tail(s))

\* s.strip(" |,-:")
RECURSIVE StripSeparators(_)
StripSeparators(s) ==
    IF s # <<>> /\ Head(s) \in {" ", "|", ":"} THEN StripSeparators(Tail(s))
    ELSE IF s # <<>> /\ s[Len(s)] \in {" ", "|", ":"}
         THEN StripSeparators(SubSeq(s, 1, Len(s) - 1))
         ELSE s

clean_cell(s) == Strip(StripSeparators(NormalizeWs(RemovePhrase(s))))

(* ------------- RPL scripts: the label-proximity extractors ------------- *)
\* A card is the sequence of its child elements in document order; every
\* child is a block of one line with a tag and an inner text.  In the texts
\* "Holder" and "holder" are a label word in two spellings, "gtin" a
\* heading keyword, "acme" a value word and ":" a lone colon.
ElementTags == {"div", "h4"}

ElementTexts ==
    { <<>>, <<"Holder">>, <<"holder", ":", " ", "acme">>, <<"acme">>, <<":">>, <<"gtin">> }

Elements == [tag : ElementTags, text : ElementTexts]

Containers == UNION {[1..n -> Elements] : n \in 0..MaxElements}

\* the synonym lists handed to the extractors
LabelVariantLists ==
    { << <<"holder">> >>, << <<"Holder">> >>, << <<"maker">>, <<"holder">> >> }

\* str.lower()
lower(s) == [i \in DOMAIN s |-> IF s[i] = "Holder" THEN "holder" ELSE s[i]]

\* t in s
Contains(s, t) == \E i \in 0..(Len(s) - Len(t)) : SubSeq(s, i + 1, i + Len(t)) = t

\* s.replace(t, "")
RECURSIVE Replace(_, _)
Replace(s, t) ==
    IF s = <<>> \/ t = <<>> THEN s
    ELSE IF Len(s) >= Len(t) /\ SubSeq(s, 1, Len(t)) = t
         THEN Replace(SubSeq(s, Len(t) + 1, Len(s)), t)
         ELSE <<Head(s)>> \o Replace(Tail(s), t)

\* sep.join(parts)
RECURSIVE JoinWith(_, _)
JoinWith(parts, sep) ==
    IF parts = <<>> THEN <<>>
    ELSE IF Len(parts) = 1 THEN parts[1]
         ELSE parts[1] \o sep \o JoinWith(Tail(parts), sep)

\* s.split(sep)
RECURSIVE Split(_, _)
Split(s, sep) ==
    IF IndexOf(s, sep) = 0 THEN <<s>>
    ELSE <<SubSeq(s, 1, IndexOf(s, sep) - 1)>>
         \o Split(SubSeq(s, IndexOf(s, sep) + 1, Len(s)), sep)

\* any(v in low for v in variants): whether a text holds one of the synonyms
contains_label_Always(low, variants) == TRUE
contains_label(low, variants) == \E k \in DOMAIN variants : Contains(low, variants[k])

\* el.inner_text().strip() of child i
Txt(c, i) == Strip(c[i].text)

\* the stripped inner text of nextElementSibling, empty when there is none
NextSiblingText(c, i) == IF i < Len(c) THEN Txt(c, i + 1) ELSE <<>>

\* the non-blank lines of parent.inner_text(): one per child with a text
ParentLines(c) == SelectSeq([i \in DOMAIN c |-> Txt(c, i)], LAMBDA t : t # <<>>)

\* container.query_selector_all("p,div,span,li")
InSelector(tag) == tag \in {"p", "div", "span", "li"}

\* the children the selector returns whose text is not empty
Selected(c) == {j \in DOMAIN c : InSelector(c[j].tag) /\ Txt(c, j) # <<>>}

\* rpl_poland.py strategy 3: the first non-empty selected element after the
\* one that compares equal to el; handle_eq tells whether two handles of the
\* same node compare equal
FollowingOf(c, i, handle_eq) ==
    LET after == {j \in Selected(c) : j > i}
    IN  IF handle_eq /\ i \in Selected(c) /\ after # {}
        THEN <<Txt(c, CHOOSE j \in after : \A k \in after : j <= k)>>
        ELSE <<>>

\* rpl_poland.py: the value collected for the label element i (at most one)
ValueNear(c, i, handle_eq) ==
    LET vtxt      == NextSiblingText(c, i)
        remainder == Strip(Replace(JoinWith(ParentLines(c), <<"NL">>), Txt(c, i)))
    IN  IF vtxt # <<>> THEN <<vtxt>>
        ELSE IF remainder # <<>> THEN <<remainder>>
        ELSE FollowingOf(c, i, handle_eq)

\* found_values after the first n children
RECURSIVE found_values(_, _, _, _)
found_values(c, variants, handle_eq, n) ==
    IF n = 0 THEN <<>>
    ELSE found_values(c, variants, handle_eq, n - 1)
         \o (IF Txt(c, n) # <<>> /\ contains_label(lower(Txt(c, n)), variants)
             THEN ValueNear(c, n, handle_eq) ELSE <<>>)

\* the list without the repeats of an earlier entry
RECURSIVE Dedup(_)
Dedup(vs) ==
    IF vs = <<>> THEN <<>>
    ELSE LET d == Dedup(SubSeq(vs, 1, Len(vs) - 1))
         IN  IF Last(vs) \in Range(d) THEN d ELSE Append(d, Last(vs))

extract_value_by_label(c, variants, handle_eq) ==
    LET fv == found_values(c, variants, handle_eq, Len(c))
    IN  IF fv = <<>> THEN None ELSE JoinWith(Dedup(fv), <<" ", "|", " ">>)

\* dummy_rpl_html.py
LowerAll(variants) == [k \in DOMAIN variants |-> lower(variants[k])]

\* the heading keywords of strategy 2
HeadingKeywords == { <<"gtin">> }

\* strategy 2: the parent's lines that hold neither a label nor a heading
CleanedLines(c, lvl) ==
    SelectSeq(ParentLines(c),
              LAMBDA ln : /\ ~contains_label(lower(ln), lvl)
                          /\ \A kw \in HeadingKeywords : ~Contains(lower(ln), kw))

\* strategy 3: the selected element after the first one whose text holds txt
SiblingAfter(c, txt) ==
    LET seen  == {j \in Selected(c) : Contains(Txt(c, j), txt)}
        first == CHOOSE j \in seen : \A k \in seen : j <= k
        after == {j \in Selected(c) : j > first}
    IN  IF seen # {} /\ after # {}
        THEN <<Txt(c, CHOOSE j \in after : \A k \in after : j <= k)>>
        ELSE <<>>

\* the value collected for the label element i (at most one)
CandidateNear_AllStrategies(c, i, lvl) ==
    (IF NextSiblingText(c, i) # <<>> THEN <<NextSiblingText(c, i)>> ELSE <<>>)
    \o (IF CleanedLines(c, lvl) # <<>>
        THEN <<JoinWith(CleanedLines(c, lvl), <<" ", "|", " ">>)>> ELSE <<>>)
    \o SiblingAfter(c, Txt(c, i))
CandidateNear(c, i, lvl) ==
    LET cand    == NextSiblingText(c, i)
        cleaned == CleanedLines(c, lvl)
    IN  IF cand # <<>> THEN <<cand>>
        ELSE IF cleaned # <<>> THEN <<JoinWith(cleaned, <<" ", "|", " ">>)>>
        ELSE SiblingAfter(c, Txt(c, i))

\* values after the first n children
RECURSIVE values(_, _, _)
values(c, lvl, n) ==
    IF n = 0 THEN <<>>
    ELSE values(c, lvl, n - 1)
         \o (IF Txt(c, n) # <<>> /\ contains_label(lower(Txt(c, n)), lvl)
             THEN CandidateNear(c, n, lvl) ELSE <<>>)

\* the parts of one candidate that hold no label and have two characters
good_parts(v, lvl) ==
    SelectSeq([k \in DOMAIN Split(v, "|") |-> Strip(Split(v, "|")[k])],
              LAMBDA q : ~contains_label(lower(q), lvl) /\ TextLen(q) >= 2)

\* the cleaned candidates
RECURSIVE out(_, _)
out(vs, lvl) ==
    IF vs = <<>> THEN <<>>
    ELSE (IF good_parts(Head(vs), lvl) # <<>>
          THEN <<JoinWith(good_parts(Head(vs), lvl), <<" ", "|", " ">>)>> ELSE <<>>)
         \o out(Tail(vs), lvl)

extract_by_label_in_container(c, variants) ==
    LET o == out(values(c, LowerAll(variants), Len(c)), LowerAll(variants))
    IN  IF o = <<>> THEN None ELSE JoinWith(o, <<" ", "|", "|", " ">>)

\* the product-name texts the cards of the listing show
CardTexts ==
    << <<"x">>,
       <<"Kod", " ", " ", "ATC", " ", "x">>,
       <<"Kod", " ", "ATC", " ", "x", " ", "|">> >>

\* the text of card n of listing page pi
CardText(pi, n) == CardTexts[((pi + n) % Len(CardTexts)) + 1]

\* what the cards of the listing hold once their materials button has been
\* tried: the button (absent, clickable, or present but not clickable) and
\* the elements of the card; "Holder" labels the MA holder "acme", "maker"
\* the manufacturer "beta"
CardLayouts ==
    << [btn |-> "clickable",
        content |-> << [tag |-> "div", text |-> <<"Holder">>],
                       [tag |-> "div", text |-> <<"acme">>],
                       [tag |-> "div", text |-> <<"maker">>],
                       [tag |-> "div", text |-> <<"beta">>] >>],
       [btn |-> "absent",
        content |-> << [tag |-> "div", text |-> <<"x">>] >>],
       [btn |-> "unclickable",
        content |-> << [tag |-> "div", text |-> <<"gtin">>] >>] >>

\* card n of listing page pi
CardLayout(pi, n) == CardLayouts[((pi + n) % Len(CardLayouts)) + 1]

\* the elements of a page with m cards, in document order
RECURSIVE PageContent(_, _)
PageContent(pi, m) ==
    IF m = 0 THEN <<>> ELSE PageContent(pi, m - 1) \o CardLayout(pi, m).content

\* LABEL_VARIANTS, shortened to one synonym a field
MaHolderVariants == << <<"holder">> >>
ManufacturerVariants == << <<"maker">> >>

\* the extractor of script p
ExtractLabel(p, c, variants, handle_eq) ==
    IF p = "scrape" THEN extract_by_label_in_container(c, variants)
    ELSE extract_value_by_label(c, variants, handle_eq)

\* scrape 463-482, run_scrape 258-279: a field of card n of a page with m
\* cards: nothing without a materials button, else the value found in the
\* card, else the value found in the whole page; "" for None
CardField(p, pi, m, n, variants, handle_eq) ==
    LET inCard == ExtractLabel(p, CardLayout(pi, n).content, variants, handle_eq)
        inPage == ExtractLabel(p, PageContent(pi, m), variants, handle_eq)
        v      == IF CardLayout(pi, n).btn = "absent" THEN None
                  ELSE IF inCard # None /\ inCard # <<>> THEN inCard
                  ELSE inPage
    IN  IF v = None THEN <<>> ELSE v

\* the row appended for card n of a page with m non-empty cards: scrape
\* cleans the cells before the append (lines 484-498), run_scrape strips
\* the product name (line 221)
CardRow_OnlyWithButton(p, pi, m, n, handle_eq) ==
    IF CardLayout(pi, n).btn = "absent" THEN <<>>
    ELSE << [search_term |-> 1, page_index |-> pi, card_index |-> n,
             materials |-> CardLayout(pi, n).btn,
             product_name |-> Strip(CardText(pi, n)),
             ma_holder |-> CardField(p, pi, m, n, MaHolderVariants, handle_eq),
             manufacturers |-> CardField(p, pi, m, n, ManufacturerVariants, handle_eq)] >>
CardRow(p, pi, m, n, handle_eq) ==
    LET clean(v) == IF p = "scrape" THEN clean_cell(v) ELSE v
    IN  << [search_term |-> 1, page_index |-> pi, card_index |-> n,
            materials |-> CardLayout(pi, n).btn,
            product_name |-> IF p = "scrape" THEN clean_cell(CardText(pi, n))
                                             ELSE Strip(CardText(pi, n)),
            ma_holder |-> clean(CardField(p, pi, m, n, MaHolderVariants, handle_eq)),
            manufacturers |-> clean(CardField(p, pi, m, n, ManufacturerVariants,
                                              handle_eq))] >>

\* the rows of the first n cards of a listing page with m non-empty cards
RECURSIVE PageRows(_, _, _, _, _)
PageRows(p, pi, m, n, handle_eq) ==
    IF n = 0 THEN <<>>
    ELSE PageRows(p, pi, m, n - 1, handle_eq) \o CardRow(p, pi, m, n, handle_eq)

\* dummy_rpl_html.py lines 536-540: the final pass over results
RECURSIVE FinalCleanPass(_)
FinalCleanPass(rs) ==
    IF rs = <<>> THEN <<>>
    ELSE <<[Head(rs) EXCEPT !.product_name = clean_cell(@), !.ma_holder = clean_cell(@),
                            !.manufacturers = clean_cell(@)]>>
         \o FinalCleanPass(Tail(rs))

\* one pass over the cards of the page (scrape 384-500, run_scrape 197-294)
RPL_ProcessPage ==
    /\ prog \in RplPrograms /\ pc = "page"
    /\ \E m \in 0..MaxCards, handle_eq \in BOOLEAN :
          /\ rows' = rows \o PageRows(prog, rpl.page_index, m, m, handle_eq)
          /\ rpl' = [rpl EXCEPT !.pages = Append(@, rpl.page_index),
                                !.counts = Append(@, m)]
    /\ pc' = "next"
    /\ UNCHANGED <<prog, call, parse, site, aborted, sidx, attempted, sink, browser, runVars>>

\* find the next control and test it (scrape 502-517, run_scrape 296-328)
RPL_FindNext ==
    /\ prog \in RplPrograms /\ pc = "next"
    /\ \E f \in 0..3 :
          LET el  == ControlAt(rpl)
              dis == IF prog = "run_scrape" THEN is_disabled(el, f)
                                            ELSE ScrapeSeesDisabled(el, f)
          IN  /\ (~el.present => f = 0)
              /\ rpl' = [rpl EXCEPT !.next_btn = el, !.fail_at = f,
                                    !.read_failed = @ \/ (f # 0 /\ ReportsDisabled(el))]
              /\ pc' = IF ~el.present \/ dis THEN "save" ELSE "click_next"
    /\ UNCHANGED <<prog, call, parse, site, aborted, sidx, attempted, rows, sink, browser, runVars>>

\* click the control, count the page, test max_pages (scrape 519-534,
\* run_scrape 330-351); a click on a disabled control only goes through as
\* the scripted el.click(), which the site ignores
RPL_ClickNext ==
    /\ prog \in RplPrograms /\ pc = "click_next"
    /\ rpl.page_index < PageCap
    /\ \/ /\ pc' = "save" /\ rpl' = rpl                              \* both clicks raise: break
       \/ /\ rpl' = [rpl EXCEPT
                       !.page_index = @ + 1,
                       !.site_page = IF ReportsDisabled(rpl.next_btn) THEN @ ELSE @ + 1]
          /\ pc' = IF MaxPagesReached(rpl.max_pages, rpl.page_index + 1) THEN "save" ELSE "page"
    /\ UNCHANGED <<prog, call, parse, site, aborted, sidx, attempted, rows, sink, browser, runVars>>

\* write the CSV and close the browser (scrape 536-552, run_scrape 353-364)
RPL_Save ==
    /\ prog \in RplPrograms /\ pc = "save"
    /\ rows' = IF prog = "scrape" THEN FinalCleanPass(rows) ELSE rows
    /\ sink' = [sink EXCEPT !.csv = rows', !.writes = @ + 1]
    /\ browser' = FALSE
    /\ pc' = "done"
    /\ UNCHANGED <<prog, call, parse, site, aborted, rpl, sidx, attempted, runVars>>

(* ---------------------- aifa_debug.run.py debug_run -------------------- *)
\* lines 83-124: launch, search, wait for the results and enumerate the
\* cards, once, before the loop
AD_Start ==
    /\ prog = "aifa_debug" /\ pc = "start"
    /\ \/ /\ pc' = "crashed" /\ browser' = FALSE                      \* a call outside any try raises
          /\ UNCHANGED <<url, total_cards, item>>
       \/ /\ pc' = "done" /\ browser' = FALSE                         \* no input, or no results: return
          /\ UNCHANGED <<url, total_cards, item>>
       \/ \E n \in 0..MaxCards :
             /\ total_cards' = n /\ item' = FreshItem
             /\ url' = "listing" /\ browser' = TRUE /\ pc' = "loop_top"
    /\ UNCHANGED <<prog, call, parse, site, aborted, rpl, sidx, attempted, rows, sink, exit, idx, ncur,
                   visited, shrunk, scraped>>

\* line 126: for idx, card in enumerate(cards, start=1); lines 207-212 after it
AD_LoopTop ==
    /\ prog = "aifa_debug" /\ pc = "loop_top"
    /\ IF idx >= total_cards
       THEN pc' = "done" /\ browser' = FALSE /\ visited' = visited
       ELSE pc' = "click" /\ browser' = browser /\ visited' = Append(visited, idx)
    /\ UNCHANGED <<prog, call, parse, site, aborted, rpl, sidx, attempted, rows, sink, exit, url,
                   total_cards, idx, ncur, shrunk, item, scraped>>

\* lines 129-133: click the card reference of the list built before the loop
AD_ClickCard ==
    /\ prog = "aifa_debug" /\ pc = "click"
    /\ \/ /\ item' = [item EXCEPT !.page = PageOf(site, 1, idx),
                                  !.stale_click = @ \/ ~item.fresh, !.fresh = FALSE]
          /\ url' = "detail" /\ pc' = "wait_detail" /\ browser' = browser
       \/ /\ item' = [item EXCEPT !.stale_click = @ \/ ~item.fresh]    \* click and evaluate both raise
          /\ url' = url /\ pc' = "crashed" /\ browser' = FALSE
    /\ UNCHANGED <<prog, call, parse, site, aborted, rpl, sidx, attempted, rows, sink, exit, total_cards,
                   idx, ncur, visited, shrunk, scraped>>

\* lines 135-167: the three waits for the detail page; when none passes,
\* go back and continue
AD_WaitDetail ==
    /\ prog = "aifa_debug" /\ pc = "wait_detail"
    /\ \/ /\ item' = [item EXCEPT !.ready = TRUE]
          /\ pc' = "capture" /\ UNCHANGED <<url, idx, browser>>
       \/ /\ pc' = "loop_top" /\ url' = "listing" /\ idx' = idx + 1   \* page.go_back(); continue
          /\ UNCHANGED <<item, browser>>
       \/ /\ pc' = "crashed" /\ browser' = FALSE                       \* page.go_back() raises
          /\ UNCHANGED <<item, url, idx>>
    /\ UNCHANGED <<prog, call, parse, site, aborted, rpl, sidx, attempted, rows, sink, exit, total_cards,
                   ncur, visited, shrunk, scraped>>

\* lines 170-205: save the page, print the fields, go back to the results
AD_Capture ==
    /\ prog = "aifa_debug" /\ pc = "capture"
    /\ \/ /\ pc' = "loop_top" /\ url' = "listing" /\ idx' = idx + 1
          /\ browser' = browser
       \/ /\ pc' = "crashed" /\ browser' = FALSE                       \* a page call raises
          /\ UNCHANGED <<url, idx>>
    /\ UNCHANGED <<prog, call, parse, site, aborted, rpl, sidx, attempted, rows, sink, exit, total_cards,
                   ncur, visited, shrunk, item, scraped>>

(* ------------------------- the scripts as wholes ---------------------- *)

(* ------------- RPL scripts: one call of a label extractor ------------- *)
\* scrape calls extract_by_label_in_container on a card; a raising
\* query_selector_all makes it return None
ExtractByLabelInContainer ==
    /\ prog = "scrape" /\ pc = "card"
    /\ \/ call' = [call EXCEPT !.done = TRUE, !.raised = TRUE, !.result = None]
       \/ call' = [call EXCEPT
                     !.done = TRUE,
                     !.values = values(call.container, LowerAll(call.label_variants),
                                       Len(call.container)),
                     !.candidates = out(values(call.container, LowerAll(call.label_variants),
                                               Len(call.container)),
                                        LowerAll(call.label_variants)),
                     !.result = extract_by_label_in_container(call.container,
                                                              call.label_variants)]
    /\ pc' = "card_done"
    /\ UNCHANGED <<prog, parse, site, aborted, rpl, sidx, attempted, rows, sink, browser, runVars>>

\* run_scrape calls extract_value_by_label on a card
ExtractValueByLabel ==
    /\ prog = "run_scrape" /\ pc = "card"
    /\ \/ call' = [call EXCEPT !.done = TRUE, !.raised = TRUE, !.result = None]
       \/ \E handle_eq \in BOOLEAN :
            call' = [call EXCEPT
                       !.done = TRUE,
                       !.handle_eq = handle_eq,
                       !.values = found_values(call.container, call.label_variants,
                                               handle_eq, Len(call.container)),
                       !.candidates = found_values(call.container, call.label_variants,
                                                   handle_eq, Len(call.container)),
                       !.result = extract_value_by_label(call.container,
                                                         call.label_variants, handle_eq)]
    /\ pc' = "card_done"
    /\ UNCHANGED <<prog, parse, site, aborted, rpl, sidx, attempted, rows, sink, browser, runVars>>


(* --------------------- the PDF field extractors ----------------------- *)
\* aifa_scraper.py lines 137-145: the pattern
\*   Label(?:.*?)([A-Z][\w \-,&\.\(\)\/]{5,200})
\* searched from the left: on the line of a label occurrence the group
\* starts at the first capitalised word and runs up to a colon or the end
\* of the line; None when no occurrence has such a word
RECURSIVE NearKeyword(_, _)
NearKeyword(text, label) ==
    LET p     == IndexOf(text, label)
        rest  == SubSeq(text, p + 1, Len(text))
        line  == UpTo(rest, {"NL"})
        caps  == {k \in DOMAIN line : Weight(line[k]) >= 6}
        first == CHOOSE k \in caps : \A j \in caps : k <= j
    IN  IF p = 0 THEN None
        ELSE IF caps # {} THEN UpTo(SubSeq(line, first, Len(line)), {":", "<"})
        ELSE NearKeyword(rest, label)

\* one field of extract_ma_and_manufacturer_from_pdf: the pattern list
\* (lines 123-133), then the fallback when the value is None or empty
AifaField(text, labels, keyword) ==
    LET v == PUFirstPattern(text, labels)
    IN  IF (v = None \/ v = <<>>) /\ NearKeyword(text, keyword) # None
        THEN Strip(NearKeyword(text, keyword))
        ELSE v

\* aifa_scraper.py lines 98-148: <<mah, manu>>
extract_ma_and_manufacturer_from_pdf(pdf) ==
    IF ~pdf.openable \/ TextLen(pdf.text) < 10
    THEN <<None, None>>
    ELSE <<AifaField(pdf.text, <<"M", "T">>, "T"),
           AifaField(pdf.text, <<"F", "P", "C", "W">>, "P")>>

\* the lines a leaflet text is made of: a label with a blank value, a stray
\* character, a label with its value, a label whose value is on the next
\* line, and the same for the other labels
PdfLines ==
    { <<"T", ":", " ", " ">>, <<"z">>, <<"T", " ", "b">>, <<"T", ":">>,
      <<"P", ":", " ", "c">>, <<"M", ":", " ", "a">>, <<"F", ":", " ", "d">> }

\* the texts of up to n lines
RECURSIVE TextsOf(_)
TextsOf(n) ==
    IF n = 0 THEN {<<>>}
    ELSE TextsOf(n - 1) \cup PdfLines
         \cup {t \o <<"NL">> \o l : t \in TextsOf(n - 1) \ {<<>>}, l \in PdfLines}

PdfFiles ==
    {PdfCorrupt} \cup {[openable |-> TRUE, text |-> t] : t \in TextsOf(MaxPdfLines)}

\* the functions that read the two fields from a leaflet
PdfFunctions == {"index1", "v2", "pdf_utils", "aifa_scraper"}

\* index1.py extract_details_from_pdf applied to the file
ParseIndex1 ==
    /\ parse.fn = "index1" /\ ~parse.done
    /\ parse' = [parse EXCEPT !.done = TRUE,
                              !.mah = extract_details_from_pdf(parse.pdf)[1],
                              !.manu = extract_details_from_pdf(parse.pdf)[2]]
    /\ UNCHANGED <<prog, call, site, pc, sidx, attempted, aborted, rows, sink, browser,
                   runVars, rpl>>

\* aifa_scrapper_v2.py extract_from_pdf applied to the file
ParseV2 ==
    /\ parse.fn = "v2" /\ ~parse.done
    /\ parse' = [parse EXCEPT !.done = TRUE,
                              !.mah = v2_extract_from_pdf(parse.pdf)[1],
                              !.manu = v2_extract_from_pdf(parse.pdf)[2]]
    /\ UNCHANGED <<prog, call, site, pc, sidx, attempted, aborted, rows, sink, browser,
                   runVars, rpl>>

\* pdf_utils.py extract_from_pdf applied to the file: extract_text is not
\* inside a try
ParsePdfUtils ==
    /\ parse.fn = "pdf_utils" /\ ~parse.done
    /\ parse' = IF parse.pdf.openable
                THEN [parse EXCEPT !.done = TRUE,
                                   !.mah = pdf_utils_extract(parse.pdf).mah,
                                   !.manu = pdf_utils_extract(parse.pdf).manufacturer]
                ELSE [parse EXCEPT !.done = TRUE, !.raised = TRUE]
    /\ UNCHANGED <<prog, call, site, pc, sidx, attempted, aborted, rows, sink, browser,
                   runVars, rpl>>

\* aifa_scraper.py lines 77-96, download_pdf_content: the browser-context
\* request answers OK and the file is written, answers not OK, raises, or
\* answers OK and the write raises; the plain request is made in the except
\* branch only
DownloadPdfContent ==
    /\ parse.fn = "aifa_scraper" /\ parse.dl.returned = "none"
    /\ \E first \in {"ok", "not_ok", "raises", "write_raises"}, second \in {"ok", "fails"} :
          parse' = [parse EXCEPT !.dl =
              IF first = "ok"
              THEN [first |-> first, fallback |-> FALSE, second |-> "none",
                    returned |-> "path", written_by |-> 1]
              ELSE IF first = "not_ok"
              THEN [first |-> first, fallback |-> FALSE, second |-> "none",
                    returned |-> "None", written_by |-> 0]
              ELSE [first |-> first, fallback |-> TRUE, second |-> second,
                    returned |-> IF second = "ok" THEN "path" ELSE "None",
                    written_by |-> IF second = "ok" THEN 2 ELSE 0]]
    /\ UNCHANGED <<prog, call, site, pc, sidx, attempted, aborted, rows, sink, browser,
                   runVars, rpl>>

\* aifa_scraper.py lines 224-229: extract_ma_and_manufacturer_from_pdf
\* applied to the downloaded file
ParseAifaScraper ==
    /\ parse.fn = "aifa_scraper" /\ ~parse.done /\ parse.dl.returned = "path"
    /\ parse' = [parse EXCEPT !.done = TRUE,
                              !.mah = extract_ma_and_manufacturer_from_pdf(parse.pdf)[1],
                              !.manu = extract_ma_and_manufacturer_from_pdf(parse.pdf)[2]]
    /\ UNCHANGED <<prog, call, site, pc, sidx, attempted, aborted, rows, sink, browser,
                   runVars, rpl>>

\* index1.py run as a script
NextIndex1 ==
    \/ I1_Main \/ I1_Launch \/ I1_Search \/ I1_WaitResults \/ I1_LoopTop
    \/ I1_ClickCard \/ I1_WaitDetail \/ I1_ExtractHtml \/ I1_PdfDownload
    \/ I1_Append \/ I1_Except \/ I1_Finally \/ I1_Save

\* aifa_scrapper_v2.py run as a script
NextV2 ==
    \/ V2_Start \/ V2_Main \/ V2_WaitResults \/ V2_LoopTop \/ V2_ClickCard
    \/ V2_WaitDetail \/ V2_Extract \/ V2_GoBack \/ V2_Return \/ V2_Save

\* src/main.py run as a script
NextMainPy == MP_Start \/ MP_Main \/ MP_Search \/ MP_Extract \/ MP_Save

\* dummy_rpl_html.py or rpl_poland.py run as a script
NextRpl == RPL_Start \/ RPL_ProcessPage \/ RPL_FindNext \/ RPL_ClickNext \/ RPL_Save

\* aifa_debug.run.py run as a script
NextAifaDebug == AD_Start \/ AD_LoopTop \/ AD_ClickCard \/ AD_WaitDetail \/ AD_Capture

Next == NextIndex1 \/ NextV2 \/ NextMainPy \/ NextRpl \/ NextAifaDebug

\* any one of the scripts
Spec == Init /\ [][Next]_vars

\* one script at a time
InitIndex1 == Init /\ prog = "index1"
SpecIndex1 == InitIndex1 /\ [][NextIndex1]_vars

InitV2 == Init /\ prog = "v2"
SpecV2 == InitV2 /\ [][NextV2]_vars

InitRpl == Init /\ prog \in RplPrograms
SpecRpl == InitRpl /\ [][NextRpl]_vars

\* an RPL script called without max_pages
InitRplUnlimited == InitRpl /\ ~rpl.max_pages.given
SpecRplUnlimited == InitRplUnlimited /\ [][NextRpl]_vars

\* index1.py or one of the RPL scripts; the detail pages behind the cards
\* and the max_pages argument play no part in the search and the sink, so
\* one arrangement is taken and max_pages is not given
InitIndex1Rpl ==
    Init /\ prog \in {"index1"} \cup RplPrograms /\ site = 0 /\ ~rpl.max_pages.given
NextIndex1Rpl == NextIndex1 \/ NextRpl
SpecIndex1Rpl == InitIndex1Rpl /\ [][NextIndex1Rpl]_vars

\* index1.py, main.py or one of the RPL scripts, as in SpecIndex1Rpl
InitLifecycle ==
    Init /\ prog \in {"index1", "main_py"} \cup RplPrograms /\ site = 0
         /\ ~rpl.max_pages.given
NextLifecycle == NextIndex1 \/ NextMainPy \/ NextRpl
SpecLifecycle == InitLifecycle /\ [][NextLifecycle]_vars

\* one call of a label extractor on one card
NextExtractor == ExtractByLabelInContainer \/ ExtractValueByLabel

InitExtractor ==
    /\ prog \in RplPrograms
    /\ parse = NoParse
    /\ call \in [container : Containers, label_variants : LabelVariantLists,
                 done : {FALSE}, raised : {FALSE}, handle_eq : {FALSE}, values : {<<>>},
                 candidates : {<<>>}, result : {<<>>}]
    /\ site = 0
    /\ rpl = RplInit(NoMaxPages, 1, NoButton)
    /\ pc = "card"
    /\ sidx = 1
    /\ attempted = <<>>
    /\ aborted = {}
    /\ rows = <<>>
    /\ sink = [table |-> PriorTable, csv |-> <<>>, writes |-> 0]
    /\ browser = TRUE
    /\ exit = "none"
    /\ url = "listing"
    /\ total_cards = 0
    /\ idx = 0
    /\ ncur = 0
    /\ visited = <<>>
    /\ shrunk = FALSE
    /\ item = NoItem
    /\ scraped = <<>>

SpecExtractor == InitExtractor /\ [][NextExtractor]_vars

\* one call of a PDF field extractor on one file
NextPdf == ParseIndex1 \/ ParseV2 \/ ParsePdfUtils \/ DownloadPdfContent \/ ParseAifaScraper

InitPdf ==
    /\ parse \in [fn : PdfFunctions, pdf : PdfFiles, dl : {NoDownload}, done : {FALSE},
                  raised : {FALSE}, mah : {<<>>}, manu : {<<>>}]
    /\ prog = "index1"
    /\ call = NoCall
    /\ site = 0
    /\ rpl = RplInit(NoMaxPages, 1, NoButton)
    /\ pc = "pdf"
    /\ sidx = 1
    /\ attempted = <<>>
    /\ aborted = {}
    /\ rows = <<>>
    /\ sink = [table |-> PriorTable, csv |-> <<>>, writes |-> 0]
    /\ browser = TRUE
    /\ exit = "none"
    /\ url = "detail"
    /\ total_cards = 0
    /\ idx = 0
    /\ ncur = 0
    /\ visited = <<>>
    /\ shrunk = FALSE
    /\ item = NoItem
    /\ scraped = <<>>

SpecPdf == InitPdf /\ [][NextPdf]_vars

(* ----------------------------- properties ----------------------------- *)
\* a value of the "not found" class of index1.py (lines 198-200)
IsNotFound(v) == v \in {NotFound, NotFoundInPDF}

\* an error message put where a field value belongs
IsErrorMessage(v) == v # <<>> /\ Head(v) = "Error: "

\* C1: a run of run_scraper_for_substance that found N cards and never saw
\* fewer than N afterwards has visited the indices 0..N-1 once each in
\* ascending order when it ends, unless the site itself became unreachable;
\* a run stopped by the drift guard saw M <= index cards and did not visit
\* that index.
C1_VisitsEveryIndex ==
    (prog = "index1" /\ pc = "finally" /\ exit \in {"loop_done", "drift", "item_error"}) =>
        /\ ~shrunk => visited = [i \in 1..total_cards |-> i - 1]
        /\ exit = "drift" => (ncur <= idx /\ idx \notin Range(visited))

\* C2: a row is produced only for an item whose detail page showed a ready
\* marker; an item that never became ready is skipped without a row.
C2_NoRowUnlessReady ==
    (prog \in {"index1", "v2"} /\ item.appended) => item.ready

\* C3: a failure raised while an item of run_scraper_for_substance is being
\* processed on its open detail page never leaves the loop: the next
\* position is the rest of the item or the head of the loop.
C3_ItemFailureContained ==
    [][(prog = "index1" /\ pc \in {"extract", "pdf"}) => pc' \in {"pdf", "append", "loop_top"}]_vars

\* C4: a script that has started on its list of substances and has ended
\* has attempted every substance of the list, once each, in list order.
C4_EverySubstanceAttempted ==
    (prog \in {"index1", "v2", "main_py"} /\ pc \in {"done", "crashed"} /\ attempted # <<>>)
        => attempted = SUBSTANCES

\* C5: the pagination loops of scrape and run_scrape never process a page
\* after the page K on which the next control is absent or reports disabled.
C5_StopsAtLastPage ==
    prog \in RplPrograms => Len(rpl.pages) <= rpl.site_last

\* C6: with a maximum page count P given, scrape and run_scrape process at
\* most P listing pages.
C6_AtMostMaxPages ==
    (prog \in RplPrograms /\ rpl.max_pages.given) => Len(rpl.pages) <= rpl.max_pages.n

\* C7: the MA holder of an appended row of index1.py is the value of the
\* owner paragraph when that value is non-empty, else the value read from
\* the PDF when there is one, else a not-found value.
C7_FinalMaHolder ==
    (prog = "index1" /\ item.appended) =>
        LET html == item.ma_holder_html
            pdf  == item.ma_holder_pdf
            ma   == Last(rows).MA_Holder
        IN  IF ~IsNotFound(html) /\ html # <<>> THEN ma = html
            ELSE IF ~IsNotFound(pdf) /\ ~IsErrorMessage(pdf) THEN ma = pdf
            ELSE IsNotFound(ma)

\* C8: the manufacturer of an appended row is the value extracted from the
\* downloaded PDF of the item, or a not-found value when there is none; it
\* never comes from the HTML of the detail page.
C8_ManufacturerFromPdf ==
    /\ (prog = "index1" /\ item.appended) =>
          LET leaflet == item.page.leaflet
              manu    == Last(rows).Manufacturer
          IN  \/ IsNotFound(manu)
              \/ /\ item.dl = "ok" /\ leaflet.openable
                 /\ manu = PdfField(leaflet.text, "P")
    /\ (prog = "v2" /\ item.appended) => item.manu_src # "html"

\* C9: the MA holder and the manufacturer of an appended row of index1.py
\* are never an error message.
C9_NoErrorMessageInRow ==
    (prog = "index1" /\ item.appended) =>
        /\ ~IsErrorMessage(Last(rows).MA_Holder)
        /\ ~IsErrorMessage(Last(rows).Manufacturer)

\* C10: once the leaflet step of a ready item of index1.py is over, whatever
\* the download did, the item gets its row: exactly one row for the index,
\* with the document field "Not Found" when the download failed, and the
\* loop goes on to its head.
C10_DownloadNeverDropsRow ==
    (prog = "index1" /\ item.dl # "none") =>
        IF ~item.appended
        THEN pc = "append" /\ item.ready
        ELSE /\ pc \in {"loop_top", "finally", "except"}
             /\ Cardinality({k \in 1..Len(rows) :
                    /\ rows[k].Search_Substance = SUBSTANCES[sidx]
                    /\ rows[k].idx = idx - 1}) = 1
             /\ Last(rows).idx = idx - 1
             /\ item.dl = "failed" => Last(rows).PDF_File = NotFound

\* C10: a ready item whose download failed has its row
C10_Witness ==
    /\ prog = "index1" /\ item.ready /\ item.dl = "failed" /\ item.appended
    /\ Last(rows).PDF_File = NotFound /\ pc = "loop_top"

\* C11: a run whose search input could not be located or filled has ended
\* without a crash of the program, having opened no card and added no row
\* for the substance.
C11_SearchFailureReported ==
    exit = "search_failed" =>
        /\ pc # "crashed"
        /\ visited = <<>>
        /\ \A k \in 1..Len(rows) : rows[k].Search_Substance # SUBSTANCES[sidx]

\* C11 (as the code has it): after a failed search step no card was opened
\* and no row was added for the substance; index1.py reports the failure
\* and the run returns through its finally block, scrape and run_scrape end
\* with the raised exception before a page is processed or the CSV written.
C11_SearchFailureEndsRun ==
    exit = "search_failed" =>
        /\ visited = <<>>
        /\ prog = "index1" =>
              /\ pc = "finally"
              /\ \A k \in 1..Len(rows) : rows[k].Search_Substance # SUBSTANCES[sidx]
        /\ prog \in RplPrograms =>
              /\ pc = "crashed"
              /\ rows = <<>> /\ rpl.pages = <<>> /\ sink.writes = 0

\* C11: the search for the second substance fails after the first one gave rows
C11_Witness ==
    /\ prog = "index1" /\ exit = "search_failed" /\ pc = "finally"
    /\ sidx = 2 /\ rows # <<>>

\* C12: a run in which no result marker appeared, or whose first enumeration
\* found no card, has ended without raising, selected no card and added no
\* row.
C12_NoResultsEndsRun ==
    exit \in {"no_results", "zero_cards"} =>
        /\ visited = <<>>
        /\ prog = "index1" =>
              /\ pc = "finally"
              /\ \A k \in 1..Len(rows) : rows[k].Search_Substance # SUBSTANCES[sidx]
        /\ prog = "v2" => pc = "return" /\ scraped = <<>>
        /\ prog \in RplPrograms => pc \in {"save", "done"} /\ rows = <<>>

\* C13: what index1.py writes to the sink holds no row of a substance whose
\* run was aborted.
C13_NoRowOfAbortedRun ==
    (prog = "index1" /\ pc = "done") =>
        \A k \in 1..Len(rows) : rows[k].Search_Substance \notin aborted

\* C14: the sink is written at most once and only when the script is done,
\* and a script that is done has left exactly the rows of its output set in
\* the sink: in the table of index1.py (or in its backup file when that was
\* written), in the CSV of the RPL scripts.
C14_SinkHoldsOutputSet ==
    /\ sink.writes <= 1
    /\ sink.writes = 1 => pc = "done"
    /\ (prog = "index1" /\ pc = "done") =>
          IF sink.csv # <<>> THEN sink.csv = rows ELSE sink.table = rows
    /\ (prog \in RplPrograms /\ pc = "done") => sink.csv = rows

\* C15: no step changes, removes or reorders a row that is already in the
\* output set.
C15_AppendOnly ==
    [][/\ Len(rows') >= Len(rows)
       /\ \A k \in 1..Len(rows) : rows'[k] = rows[k]]_vars

\* C16: the card reference a traversal clicks was enumerated after the most
\* recent navigation of the session.
C16_ClickedReferenceIsFresh ==
    prog \in {"index1", "v2", "aifa_debug"} => ~item.stale_click

\* C17: a traversal of iterate_results_and_scrape ends only because there
\* were no results or because the index ran past the cards, never because
\* the return to the listing failed.
C17_BackFailureNotFatal ==
    (prog = "v2" /\ pc = "return") => exit \in {"no_results", "loop_done"}

\* C18: when a traversal has enumerated the cards and is about to click
\* one, the session is on the results listing.
C18_EnumeratedOnListing ==
    (prog \in {"index1", "v2"} /\ pc = "click") => url = "listing"

\* C19: when no element of the card holds a synonym, in any spelling of
\* upper and lower case, the extractor returns None.
NoSynonymInContainer ==
    \A i \in DOMAIN call.container : \A k \in DOMAIN call.label_variants :
        ~Contains(lower(call.container[i].text), lower(call.label_variants[k]))

C19_NoneWithoutLabel ==
    (call.done /\ NoSynonymInContainer) => call.result = None

\* a card of three elements with texts and no synonym has been searched
C19_Witness ==
    /\ call.done /\ NoSynonymInContainer /\ call.result = None
    /\ Len(call.container) = MaxElements
    /\ \A i \in DOMAIN call.container : call.container[i].text # <<>>

\* C20: the returned value is the join of the distinct candidate texts in
\* the order of their first occurrence.
C20_RepeatsDropped ==
    (call.done /\ call.candidates # <<>>) =>
        call.result = JoinWith(Dedup(call.candidates),
                               IF prog = "scrape" THEN <<" ", "|", "|", " ">>
                                                  ELSE <<" ", "|", " ">>)

\* C21: a card whose only text is the line "holder: acme", searched for
\* the synonym "holder", makes the extractor return "acme".
C21_LabelValueLine ==
    ( /\ call.done /\ ~call.raised
      /\ Len(call.container) = 1
      /\ call.container[1].text = <<"holder", ":", " ", "acme">>
      /\ call.label_variants = << <<"holder">> >> )
    => call.result = <<"acme">>

\* the patterns of a field of function fn, in their listed order
FieldLabels(fn, field) ==
    IF fn = "v2" THEN (IF field = "mah" THEN <<"A", "T", "M">> ELSE <<"P", "F", "W">>)
    ELSE IF fn = "pdf_utils" THEN (IF field = "mah" THEN <<"M", "T">>
                                                   ELSE <<"F", "R", "C", "P">>)
    ELSE (IF field = "mah" THEN <<"M", "T">> ELSE <<"F", "P", "C", "W">>)

\* the patterns of the list that match the text
Matching(text, labels) ==
    {k \in DOMAIN labels : ReSearch(text, labels[k], {"NL"}, 2) # None}

\* the captured group of the first pattern of the list that matches,
\* trimmed as the function trims it; None when no pattern matches
FirstMatchValue(fn, text, labels) ==
    LET ms == Matching(text, labels)
        k  == CHOOSE i \in ms : \A j \in ms : i <= j
        g  == ReSearch(text, labels[k], {"NL"}, 2)
    IN  IF ms = {} THEN None
        ELSE IF fn = "v2" THEN NormalizeWs(g) ELSE Strip(g)

\* C22: each field of a list-based extractor is the captured group of the
\* first pattern of its list that matches, and None exactly when none does.
C22_FirstPatternWins ==
    (parse.done /\ parse.pdf.openable /\ parse.fn \in {"v2", "pdf_utils", "aifa_scraper"}) =>
        /\ parse.mah = FirstMatchValue(parse.fn, parse.pdf.text, FieldLabels(parse.fn, "mah"))
        /\ parse.manu = FirstMatchValue(parse.fn, parse.pdf.text, FieldLabels(parse.fn, "manu"))

\* the leaflet without the lines that hold one of the labels
WithoutLines(pdf, labels) ==
    [pdf EXCEPT !.text = JoinWith(SelectSeq(Split(pdf.text, "NL"),
                                            LAMBDA l : Range(l) \cap labels = {}),
                                  <<"NL">>)]

\* <<ma_holder, manufacturer>> as function fn reads them
FieldsOf(fn, pdf) ==
    IF fn = "index1" THEN extract_details_from_pdf(pdf)
    ELSE extract_ma_and_manufacturer_from_pdf(pdf)

\* C23: the MA holder read from a leaflet is the one read from the same
\* leaflet without its manufacturer lines, and the manufacturer the one read
\* without the MA-holder lines.
C23_FieldsIndependent ==
    (parse.done /\ parse.pdf.openable /\ parse.fn \in {"index1", "aifa_scraper"}) =>
        /\ parse.mah = FieldsOf(parse.fn, WithoutLines(parse.pdf, {"P", "F", "W", "R", "C"}))[1]
        /\ parse.manu = FieldsOf(parse.fn, WithoutLines(parse.pdf, {"A", "T", "M"}))[2]

\* the label hits of the call, in document order
LabelHits ==
    LET vs == IF prog = "scrape" THEN LowerAll(call.label_variants) ELSE call.label_variants
    IN  SelectSeq([i \in DOMAIN call.container |-> i],
                  LAMBDA i : /\ Txt(call.container, i) # <<>>
                             /\ contains_label(lower(Txt(call.container, i)), vs))

\* what each strategy yields for the label element i, in priority order:
\* next-sibling text, parent-block residue, forward scan (<<>>: nothing)
StrategyYields(i) ==
    LET c == call.container
    IN  IF prog = "scrape"
        THEN << NextSiblingText(c, i),
                JoinWith(CleanedLines(c, LowerAll(call.label_variants)), <<" ", "|", " ">>),
                JoinWith(SiblingAfter(c, Txt(c, i)), <<>>) >>
        ELSE << NextSiblingText(c, i),
                Strip(Replace(JoinWith(ParentLines(c), <<"NL">>), Txt(c, i))),
                JoinWith(FollowingOf(c, i, call.handle_eq), <<>>) >>

\* the yield of the first strategy that succeeds, if any
FirstYield(i) ==
    LET ok == {k \in 1..3 : StrategyYields(i)[k] # <<>>}
    IN  IF ok = {} THEN <<>> ELSE <<StrategyYields(i)[CHOOSE k \in ok : \A j \in ok : k <= j]>>

RECURSIVE FirstYields(_)
FirstYields(hits) ==
    IF hits = <<>> THEN <<>> ELSE FirstYield(Head(hits)) \o FirstYields(Tail(hits))

\* C24: the collected values are, hit by hit, the yield of the first
\* strategy that succeeds, so a hit contributes at most one value.
C24_FirstStrategyWins ==
    (call.done /\ ~call.raised) =>
        /\ call.values = FirstYields(LabelHits)
        /\ Len(call.values) <= Len(LabelHits)

\* a hit whose next sibling has a text while the parent block would yield
\* a residue as well has contributed one value
C24_Witness ==
    /\ call.done /\ ~call.raised /\ prog = "scrape"
    /\ Len(LabelHits) = 1 /\ Len(call.values) = 1
    /\ StrategyYields(LabelHits[1])[1] # <<>>
    /\ StrategyYields(LabelHits[1])[2] # <<>>

\* C25: a value the extractor returns is not empty and holds none of the
\* synonyms, in any spelling of upper and lower case.
C25_ValueFreeOfLabel ==
    (call.done /\ call.result # None) =>
        /\ call.result # <<>>
        /\ \A k \in DOMAIN call.label_variants :
              ~Contains(lower(call.result), lower(call.label_variants[k]))

\* the (page_index, card_index) pairs of one row a non-empty card, page by
\* page in the order the pages were processed
RECURSIVE ExpectedPairs(_, _)
ExpectedPairs(pages, counts) ==
    IF pages = <<>> THEN <<>>
    ELSE [j \in 1..Head(counts) |-> <<Head(pages), j>>]
         \o ExpectedPairs(Tail(pages), Tail(counts))

\* C26: the rows of an RPL traversal are one a non-empty card of every
\* processed page, in ascending page and card order, and no two rows share
\* their (page_index, card_index) pair.
C26_OneRowPerCard ==
    prog \in RplPrograms =>
        /\ [k \in DOMAIN rows |-> <<rows[k].page_index, rows[k].card_index>>]
              = ExpectedPairs(rpl.pages, rpl.counts)
        /\ \A i, j \in DOMAIN rows :
              i < j => \/ rows[i].page_index < rows[j].page_index
                       \/ /\ rows[i].page_index = rows[j].page_index
                          /\ rows[i].card_index < rows[j].card_index

\* run_scrape has finished a traversal of two pages or more with a card
\* without materials button and a card whose button could not be clicked
C26_Witness ==
    /\ prog = "run_scrape" /\ pc = "done" /\ Len(rpl.pages) >= 2
    /\ \E k \in DOMAIN rows : rows[k].materials = "absent"
    /\ \E k \in DOMAIN rows : rows[k].materials = "unclickable"

\* the texts of the elements of card n of page pi
CardOwnTexts(pi, n) == {CardLayout(pi, n).content[i].text : i \in DOMAIN CardLayout(pi, n).content}

\* C27: the ma_holder and manufacturers cells of a row are empty or made of
\* texts of elements of the card the row describes.
C27_ValuesFromOwnCard ==
    prog \in RplPrograms =>
        \A k \in DOMAIN rows :
            /\ rows[k].ma_holder = <<>>
                 \/ rows[k].ma_holder \in CardOwnTexts(rows[k].page_index, rows[k].card_index)
            /\ rows[k].manufacturers = <<>>
                 \/ rows[k].manufacturers \in CardOwnTexts(rows[k].page_index,
                                                            rows[k].card_index)

\* C28: no browser is open before a run launches one, nor after a run has
\* returned or ended in an exception.
C28_BrowserClosedAfterRun ==
    /\ (prog = "index1" /\ pc \in {"main", "launch", "save", "done"}) => ~browser
    /\ (prog = "main_py" /\ pc \in {"start", "main", "extract", "save", "done", "crashed"})
          => ~browser
    /\ (prog \in RplPrograms /\ pc \in {"start", "done", "crashed"}) => ~browser

\* a run of index1.py that ended in the outer except handler has returned
\* and the next run is about to start
C28_Witness ==
    prog = "index1" /\ pc = "launch" /\ sidx > 1 /\ aborted # {} /\ ~browser

\* C29: download_pdf_content makes the plain request whenever the
\* browser-context request did not produce the file, returns None only when
\* both attempts failed, and a returned path holds the file written by the
\* attempt that succeeded.
C29_FallbackOnEveryFailure ==
    parse.dl.returned # "none" =>
        /\ parse.dl.first # "ok" => parse.dl.fallback
        /\ parse.dl.returned = "None" =>
              parse.dl.first # "ok" /\ parse.dl.fallback /\ parse.dl.second = "fails"
        /\ parse.dl.returned = "path" =>
              \/ parse.dl.first = "ok" /\ parse.dl.written_by = 1
              \/ parse.dl.second = "ok" /\ parse.dl.written_by = 2

\* C30: clean_cell is idempotent, so a cell that scrape has cleaned once is
\* left as it is by another clean_cell: in every row scrape holds, cleaning
\* product_name, ma_holder or manufacturers again returns the same cell.
C30_CleanCellIdempotent ==
    prog = "scrape" =>
        \A i \in 1..Len(rows) :
            /\ clean_cell(rows[i].product_name) = rows[i].product_name
            /\ clean_cell(rows[i].ma_holder) = rows[i].ma_holder
            /\ clean_cell(rows[i].manufacturers) = rows[i].manufacturers

====
